---- MODULE Spec2Model ----
(***************************************************************************)
(* CV Digital Twin MCP server: the document cache (cv_content,             *)
(* cv_metadata), the lazily built completion client (openai_client) and    *)
(* the tool handler _chat_with_me_impl, in its two entry scripts:          *)
(*   cv_digital_twin.py  auto-discovery picks one best match               *)
(*   main.py             auto-discovery loads every PDF of docs/           *)
(*                                                                         *)
(* Strings.  A Python str that the program measures, slices or joins is a  *)
(* Text: the run-length encoding of its characters, a sequence of runs     *)
(* <<c, n>> (n >= 1 copies of the character c) in which adjacent runs have *)
(* different characters.  len, s[:k], + and str.join are computed on that  *)
(* encoding.  A path is a plain sequence of characters.  Optional[T] is    *)
(* None == <<>> or Some(v) == <<v>>.                                       *)
(***************************************************************************)
EXTENDS Integers, Sequences, FiniteSets, TLC

None == <<>>
Some(v) == <<v>>
Val(o) == o[1]

(* ----------------------------- str ------------------------------------ *)

Rep(c, n) == IF n = 0 THEN <<>> ELSE << <<c, n>> >>

\* s + t
TCat(s, t) ==
    IF s = <<>> THEN t
    ELSE IF t = <<>> THEN s
    ELSE IF s[Len(s)][1] = t[1][1]
         THEN SubSeq(s, 1, Len(s) - 1)
                \o << <<t[1][1], s[Len(s)][2] + t[1][2]>> >>
                \o Tail(t)
         ELSE s \o t

RECURSIVE Str(_)
\* the str made of the characters cs
Str(cs) ==
    IF Len(cs) <= 1 THEN (IF cs = <<>> THEN <<>> ELSE Rep(cs[1], 1))
    ELSE TCat(Str(SubSeq(cs, 1, Len(cs) \div 2)),
              Str(SubSeq(cs, Len(cs) \div 2 + 1, Len(cs))))

RECURSIVE TLen(_)
\* len(s)
TLen(s) ==
    IF Len(s) <= 1 THEN (IF s = <<>> THEN 0 ELSE s[1][2])
    ELSE TLen(SubSeq(s, 1, Len(s) \div 2))
           + TLen(SubSeq(s, Len(s) \div 2 + 1, Len(s)))

RECURSIVE TTake(_, _)
\* s[:k]
TTake(s, k) ==
    IF k <= 0 \/ s = <<>> THEN <<>>
    ELSE IF Len(s) = 1
         THEN Rep(s[1][1], IF s[1][2] >= k THEN k ELSE s[1][2])
    ELSE LET left == SubSeq(s, 1, Len(s) \div 2)
             right == SubSeq(s, Len(s) \div 2 + 1, Len(s))
         IN  IF TLen(left) >= k THEN TTake(left, k)
             ELSE TCat(left, TTake(right, k - TLen(left)))

RECURSIVE Join(_, _)
\* sep.join(parts)
Join(sep, parts) ==
    IF parts = <<>> THEN <<>>
    ELSE IF Len(parts) = 1 THEN parts[1]
    ELSE TCat(TCat(parts[1], sep), Join(sep, Tail(parts)))

(* ----------------------------- paths ---------------------------------- *)

RECURSIVE LastSlash(_)
\* index of the last "/" of p, 0 when there is none
LastSlash(p) ==
    IF p = <<>> THEN 0
    ELSE IF p[Len(p)] = "/" THEN Len(p)
    ELSE LastSlash(SubSeq(p, 1, Len(p) - 1))

\* os.path.basename(p)
Basename(p) == SubSeq(p, LastSlash(p) + 1, Len(p))

\* Path(p).parent, for the absolute paths of the model
Dirname(p) == SubSeq(p, 1, LastSlash(p) - 1)

\* name.endswith(suffix)
EndsWith(name, suffix) ==
    /\ Len(name) >= Len(suffix)
    /\ SubSeq(name, Len(name) - Len(suffix) + 1, Len(name)) = suffix

\* ord(c) for the characters that occur in the model's paths
Ord(c) ==
    CASE c = "." -> 46 [] c = "/" -> 47
      [] c = "C" -> 67 [] c = "R" -> 82 [] c = "V" -> 86 [] c = "Z" -> 90
      [] c = "a" -> 97 [] c = "b" -> 98 [] c = "c" -> 99 [] c = "d" -> 100
      [] c = "e" -> 101 [] c = "f" -> 102 [] c = "g" -> 103 [] c = "i" -> 105
      [] c = "m" -> 109 [] c = "n" -> 110 [] c = "o" -> 111 [] c = "p" -> 112
      [] c = "r" -> 114 [] c = "s" -> 115 [] c = "t" -> 116 [] c = "u" -> 117
      [] c = "v" -> 118 [] c = "x" -> 120

RECURSIVE StrLess(_, _)
\* p < q on str: lexicographic by code point
StrLess(p, q) ==
    IF q = <<>> THEN FALSE
    ELSE IF p = <<>> THEN TRUE
    ELSE IF Head(p) /= Head(q) THEN Ord(Head(p)) < Ord(Head(q))
    ELSE StrLess(Tail(p), Tail(q))

\* sorted(ps): the one sequence over the set ps in increasing order
Sorted(ps) ==
    CHOOSE s \in [1..Cardinality(ps) -> ps] :
        \A i, j \in 1..Cardinality(ps) : i < j => StrLess(s[i], s[j])

\* the orders in which a directory listing can return the set ps
Listings(ps) ==
    {s \in [1..Cardinality(ps) -> ps] :
        \A i, j \in 1..Cardinality(ps) : i /= j => s[i] /= s[j]}

(* ------------------------- the environment ---------------------------- *)

\* Path(__file__).parent / "docs"
DocsDir == <<"/", "a", "p", "p", "/", "d", "o", "c", "s">>

\* docs_dir / name
InDocs(name) == DocsDir \o <<"/">> \o name

P_CV == InDocs(<<"C", "V", ".", "p", "d", "f">>)
P_resume == InDocs(<<"r", "e", "s", "u", "m", "e", ".", "p", "d", "f">>)
P_a == InDocs(<<"a", ".", "p", "d", "f">>)
P_b == InDocs(<<"b", ".", "p", "d", "f">>)
P_Z == InDocs(<<"Z", ".", "p", "d", "f">>)
P_notes == InDocs(<<"n", "o", "t", "e", "s", ".", "t", "x", "t">>)
P_x == <<"/", "t", "m", "p", "/", "x", ".", "p", "d", "f">>
P_missing == <<"/", "t", "m", "p", "/", "g", "o", "n", "e", ".", "p", "d", "f">>
P_scan == <<"/", "t", "m", "p", "/", "s", "c", "a", "n", ".", "p", "d", "f">>

\* max_cv_length of _chat_with_me_impl
max_cv_length == 12000

\* What a backend makes of a file: it raises, or it yields one
\* page.extract_text() value per page (None for a page without text).
Raises == [raises |-> TRUE, pages |-> <<>>]
Pages(ps) == [raises |-> FALSE, pages |-> ps]

\* The files of the model, by path: what pdfplumber and what PyPDF2 make of
\* each.  They are environment, not program: a two-page CV whose second page
\* has no text, a resume only PyPDF2 can open, a text one character over
\* max_cv_length, a corrupt file, a text of exactly max_cv_length
\* characters, a file that is no PDF, a PDF without pages, and a one-page
\* PDF in which pdfplumber finds no text and PyPDF2 does.
FileOf(p) ==
    CASE p = P_CV ->
           [plumber |-> Pages(<<Some(Rep("c", 3)), None>>),
            pypdf2 |-> Pages(<<Some(Rep("c", 3)), None>>)]
      [] p = P_resume ->
           [plumber |-> Raises, pypdf2 |-> Pages(<<Some(Rep("r", 2))>>)]
      [] p = P_a ->
           [plumber |-> Pages(<<Some(Rep("a", max_cv_length + 1))>>),
            pypdf2 |-> Pages(<<Some(Rep("a", max_cv_length + 1))>>)]
      [] p = P_Z ->
           [plumber |-> Pages(<<Some(Rep("z", max_cv_length))>>),
            pypdf2 |-> Pages(<<Some(Rep("z", max_cv_length))>>)]
      [] p = P_x ->
           [plumber |-> Pages(<<>>), pypdf2 |-> Pages(<<>>)]
      [] p = P_scan ->
           [plumber |-> Pages(<<None>>), pypdf2 |-> Pages(<<Some(Rep("s", 2))>>)]
      [] OTHER ->
           [plumber |-> Raises, pypdf2 |-> Raises]

\* The contents docs/ can have when the process starts (docs/ may also be
\* missing); /tmp/x.pdf always exists and /tmp/gone.pdf never does.
DocsContents ==
    { {}, {P_notes}, {P_b}, {P_Z}, {P_CV, P_a, P_b},
      {P_a, P_b, P_Z}, {P_resume, P_a, P_b, P_Z} }

\* the PDFs docs/ can hold, in increasing order of their names' code points
DocsPdfsInOrder == <<P_CV, P_Z, P_a, P_b, P_resume>>

DocsPdfs == {DocsPdfsInOrder[i] : i \in 1..Len(DocsPdfsInOrder)}

\* The cv_path arguments of the model: absent, the empty string, a missing
\* file, and files of every kind above.
CvPaths ==
    {None, Some(<<>>), Some(P_missing), Some(P_x), Some(P_a), Some(P_Z),
     Some(P_b)}

\* os.getenv("OPENAI_API_KEY") at the time of a call: unset, empty, set
ApiKeys == {None, Some(""), Some("sk-test")}

\* client.chat.completions.create: it answers, or it raises
Completions == {"ok", "raise"}

\* the message argument
Message == Str(<<"H", "i">>)

(* ----------------------------- exceptions ----------------------------- *)

\* str(e): a fixed text with at most one path formatted into it
Msg(fmt, path) == [fmt |-> fmt, path |-> path]

Exc(cls, msg) == [cls |-> cls, msg |-> msg]

\* isinstance read as a test of the exact class
IsInstance_ExactClass(e, cls) == e.cls = cls

\* isinstance(e, cls), for the classes an except clause of the program names
IsInstance(e, cls) ==
    CASE cls = "Exception" -> TRUE
      [] cls = "FileNotFoundError" -> e.cls = "FileNotFoundError"
      [] cls = "ImportError" -> e.cls = "ImportError"
      [] cls = "ValueError" -> e.cls = "ValueError"

(* ------------------------------ state --------------------------------- *)

VARIABLES
    script,          \* the entry script that runs: "cv_digital_twin" or "main"
    HAS_OPENAI,      \* import-time flags
    HAS_PDFPLUMBER,
    HAS_PYPDF2,
    docs_exists,     \* docs/ exists
    files,           \* the paths of the files that exist
    cv_content,      \* Optional[str]
    cv_metadata,     \* dict
    openai_client,   \* Optional[OpenAI]
    last,            \* what the latest operation was given, did and returned
    calls,           \* operations run so far
    threads          \* position and locals of each concurrently running call

vars ==
    <<script, HAS_OPENAI, HAS_PDFPLUMBER, HAS_PYPDF2, docs_exists, files,
      cv_content, cv_metadata, openai_client, last, calls, threads>>

\* operations of one behaviour
MaxCalls == 3

(* ------------------------- text extraction ---------------------------- *)

\* os.path.exists(p), cv_path.exists()
Exists(p) == p \in files

RECURSIVE PlumberPages(_)
\* pages_text of the pdfplumber branch: page.extract_text() or ""
PlumberPages(ps) ==
    IF ps = <<>> THEN <<>>
    ELSE <<IF Head(ps) = None THEN <<>> ELSE Val(Head(ps))>>
           \o PlumberPages(Tail(ps))

RECURSIVE PyPdf2Pages(_)
\* pages_text of the PyPDF2 branch: page.extract_text(), None kept
PyPdf2Pages(ps) ==
    IF ps = <<>> THEN <<>> ELSE <<Head(ps)>> \o PyPdf2Pages(Tail(ps))

\* "\n\n".join(pages_text) raises TypeError on a None item
JoinRaises(pages_text) == \E i \in 1..Len(pages_text) : pages_text[i] = None

RECURSIVE Unwrap(_)
Unwrap(pages_text) ==
    IF pages_text = <<>> THEN <<>>
    ELSE <<Val(Head(pages_text))>> \o Unwrap(Tail(pages_text))

Returned(v) == [raised |-> FALSE, value |-> v]
Raised(e) == [raised |-> TRUE, exc |-> e]

\* the pdfplumber branch of extract_text_from_pdf
ViaPdfPlumber(pdf_path) ==
    IF ~Exists(pdf_path) \/ FileOf(pdf_path).plumber.raises
    THEN Raised(Exc("Exception", Msg("pdfplumber", pdf_path)))
    ELSE Returned(Join(Rep("\n", 2),
                       PlumberPages(FileOf(pdf_path).plumber.pages)))

\* the PyPDF2 branch of extract_text_from_pdf
ViaPyPdf2(pdf_path) ==
    IF ~Exists(pdf_path) \/ FileOf(pdf_path).pypdf2.raises
    THEN Raised(Exc("Exception", Msg("PyPDF2", pdf_path)))
    ELSE IF JoinRaises(PyPdf2Pages(FileOf(pdf_path).pypdf2.pages))
    THEN Raised(Exc("Exception", Msg("TypeError", pdf_path)))
    ELSE Returned(Join(Rep("\n", 2),
                       Unwrap(PyPdf2Pages(FileOf(pdf_path).pypdf2.pages))))

NoPdfLibrary ==
    Exc("ImportError",
        Msg("No PDF library available. Please install pdfplumber or PyPDF2", <<>>))

\* extract_text_from_pdf without the first try/except: what pdfplumber
\* raises leaves the function
extract_text_from_pdf_NoFallback(pdf_path) ==
    IF HAS_PDFPLUMBER
    THEN ViaPdfPlumber(pdf_path)
    ELSE IF HAS_PYPDF2 /\ ~ViaPyPdf2(pdf_path).raised
    THEN ViaPyPdf2(pdf_path)
    ELSE Raised(NoPdfLibrary)

extract_text_from_pdf(pdf_path) ==
    IF HAS_PDFPLUMBER /\ ~ViaPdfPlumber(pdf_path).raised
    THEN ViaPdfPlumber(pdf_path)
    ELSE IF HAS_PYPDF2 /\ ~ViaPyPdf2(pdf_path).raised
    THEN ViaPyPdf2(pdf_path)
    ELSE Raised(NoPdfLibrary)

(* --------------------------- discovery -------------------------------- *)

\* docs_dir.glob("*.pdf"), as a set: the order is the listing's
GlobPdf ==
    {p \in files : Dirname(p) = DocsDir
                   /\ EndsWith(Basename(p), <<".", "p", "d", "f">>)}

\* cv_names of find_cv_in_docs
cv_names ==
    << <<"C", "V", ".", "p", "d", "f">>,
       <<"c", "v", ".", "p", "d", "f">>,
       <<"r", "e", "s", "u", "m", "e", ".", "p", "d", "f">>,
       <<"R", "e", "s", "u", "m", "e", ".", "p", "d", "f">>,
       <<"C", "V", ".", "p", "d", "f">> >>

\* find_cv_in_docs that returns the first conventional name unchecked
find_cv_in_docs_Unchecked(pdf_files) ==
    IF ~docs_exists THEN Some(InDocs(cv_names[1]))
    ELSE IF pdf_files /= <<>> THEN Some(pdf_files[1])
    ELSE Some(InDocs(cv_names[1]))

\* find_cv_in_docs() of cv_digital_twin.py, the directory listing being
\* pdf_files; Optional[str]
find_cv_in_docs(pdf_files) ==
    IF ~docs_exists THEN None
    ELSE IF \E i \in 1..Len(cv_names) : Exists(InDocs(cv_names[i]))
    THEN LET i == CHOOSE i \in 1..Len(cv_names) :
                    /\ Exists(InDocs(cv_names[i]))
                    /\ \A j \in 1..(i - 1) : ~Exists(InDocs(cv_names[j]))
         IN  Some(InDocs(cv_names[i]))
    ELSE IF pdf_files /= <<>> THEN Some(pdf_files[1])
    ELSE None

\* find_all_pdfs_in_docs() of main.py
find_all_pdfs_in_docs ==
    IF ~docs_exists THEN <<>> ELSE Sorted(GlobPdf)

(* ------------------------------ loading ------------------------------- *)

\* the text before the file name in f"\n\n--- Content from {...} ---\n\n{content}"
HeaderOpen ==
    Str(<<"\n", "\n", "-", "-", "-", " ", "C", "o", "n", "t", "e", "n",
          "t", " ", "f", "r", "o", "m", " ">>)

\* the text between the file name and the content
HeaderClose ==
    Str(<<" ", "-", "-", "-", "\n", "\n">>)

\* the marker appended to a truncated cv_text
TruncationNote ==
    Str(<<"\n", "\n", "[", "N", "o", "t", "e", ":", " ", "C", "V", " ",
          "c", "o", "n", "t", "e", "n", "t", " ", "t", "r", "u", "n", "c",
          "a", "t", "e", "d", " ", "f", "o", "r", " ", "l", "e", "n", "g",
          "t", "h", "]">>)

\* the text before cv_text in the user turn
PromptLabel ==
    Str(<<"M", "y", " ", "C", "V", "/", "R", "e", "s", "u", "m", "e", ":",
          "\n", "\n">>)

\* the text between cv_text and the message in the user turn
PromptMessage ==
    Str(<<"\n", "\n", "\n", "M", "e", "s", "s", "a", "g", "e", ":", " ">>)

NoExc == Exc("", Msg("", <<>>))

\* the module globals a load reads and writes
Globals(content, metadata) == [cv_content |-> content, cv_metadata |-> metadata]

\* load_cv(pdf_path), run on the globals g.  The result holds the globals
\* it leaves, the exception it raises if any, and the paths handed to
\* extract_text_from_pdf.
load_cv(pdf_path, g) ==
    IF ~Exists(pdf_path)
    THEN [raised |-> TRUE,
          exc |-> Exc("FileNotFoundError", Msg("CV file not found: ", pdf_path)),
          cv_content |-> g.cv_content, cv_metadata |-> g.cv_metadata,
          extracted |-> <<>>]
    ELSE IF extract_text_from_pdf(pdf_path).raised
    THEN [raised |-> TRUE,
          exc |-> extract_text_from_pdf(pdf_path).exc,
          cv_content |-> g.cv_content, cv_metadata |-> g.cv_metadata,
          extracted |-> <<pdf_path>>]
    ELSE [raised |-> FALSE,
          exc |-> NoExc,
          cv_content |-> Some(extract_text_from_pdf(pdf_path).value),
          cv_metadata |->
              [file_path |-> pdf_path,
               file_name |-> Basename(pdf_path),
               content_length |-> TLen(extract_text_from_pdf(pdf_path).value),
               loaded |-> TRUE],
          extracted |-> <<pdf_path>>]

\* f"\n\n--- Content from {os.path.basename(pdf_path)} ---\n\n{content}"
ContentPart(pdf_path, content) ==
    TCat(TCat(TCat(HeaderOpen, Str(Basename(pdf_path))), HeaderClose), content)

RECURSIVE LoadLoop_RecordsFailed(_, _, _)
\* the loop with loaded_files.append(pdf_path) moved before the try
LoadLoop_RecordsFailed(pdf_files, all_content_parts, loaded_files) ==
    IF pdf_files = <<>>
    THEN [all_content_parts |-> all_content_parts, loaded_files |-> loaded_files]
    ELSE IF extract_text_from_pdf(Head(pdf_files)).raised
    THEN LoadLoop_RecordsFailed(Tail(pdf_files), all_content_parts,
                                Append(loaded_files, Head(pdf_files)))
    ELSE LoadLoop_RecordsFailed(
             Tail(pdf_files),
             Append(all_content_parts,
                    ContentPart(Head(pdf_files),
                                extract_text_from_pdf(Head(pdf_files)).value)),
             Append(loaded_files, Head(pdf_files)))

RECURSIVE LoadLoop(_, _, _)
\* the for loop of load_all_pdfs_from_docs over the remaining pdf_files
LoadLoop(pdf_files, all_content_parts, loaded_files) ==
    IF pdf_files = <<>>
    THEN [all_content_parts |-> all_content_parts, loaded_files |-> loaded_files]
    ELSE IF extract_text_from_pdf(Head(pdf_files)).raised
    THEN LoadLoop(Tail(pdf_files), all_content_parts, loaded_files)
    ELSE LoadLoop(Tail(pdf_files),
                  Append(all_content_parts,
                         ContentPart(Head(pdf_files),
                                     extract_text_from_pdf(Head(pdf_files)).value)),
                  Append(loaded_files, Head(pdf_files)))

\* [os.path.basename(f) for f in loaded_files]
Basenames(loaded_files) ==
    [i \in 1..Len(loaded_files) |-> Basename(loaded_files[i])]

\* load_all_pdfs_from_docs() of main.py, run on the globals g
load_all_pdfs_from_docs(g) ==
    LET pdf_files == find_all_pdfs_in_docs
        loop == LoadLoop(pdf_files, <<>>, <<>>)
        content == Join(Rep("\n", 1), loop.all_content_parts)
    IN  IF pdf_files = <<>>
        THEN [raised |-> TRUE,
              exc |-> Exc("FileNotFoundError",
                          Msg("No PDF files found in docs/ directory", <<>>)),
              cv_content |-> g.cv_content, cv_metadata |-> g.cv_metadata,
              extracted |-> <<>>]
        ELSE IF loop.all_content_parts = <<>>
        THEN [raised |-> TRUE,
              exc |-> Exc("Exception",
                          Msg("Failed to load any PDF files from docs directory", <<>>)),
              cv_content |-> g.cv_content, cv_metadata |-> g.cv_metadata,
              extracted |-> pdf_files]
        ELSE [raised |-> FALSE,
              exc |-> NoExc,
              cv_content |-> Some(content),
              cv_metadata |->
                  [file_paths |-> loop.loaded_files,
                   file_names |-> Basenames(loop.loaded_files),
                   content_length |-> TLen(content),
                   num_files |-> Len(loop.loaded_files),
                   loaded |-> TRUE],
              extracted |-> pdf_files]

(* ------------------------- completion client -------------------------- *)

\* get_openai_client without the `if not api_key` check
get_openai_client_NoKeyCheck(client, api_key) ==
    IF ~HAS_OPENAI
    THEN [raised |-> TRUE,
          exc |-> Exc("ImportError", Msg("OpenAI library not installed", <<>>)),
          openai_client |-> client]
    ELSE IF client = None
    THEN [raised |-> FALSE, exc |-> NoExc,
          openai_client |-> Some([api_key |-> IF api_key = None THEN ""
                                              ELSE Val(api_key)])]
    ELSE [raised |-> FALSE, exc |-> NoExc, openai_client |-> client]

\* get_openai_client(), api_key being os.getenv("OPENAI_API_KEY") now and
\* client the global openai_client
get_openai_client(client, api_key) ==
    IF ~HAS_OPENAI
    THEN [raised |-> TRUE,
          exc |-> Exc("ImportError", Msg("OpenAI library not installed", <<>>)),
          openai_client |-> client]
    ELSE IF client = None
    THEN IF api_key = None \/ api_key = Some("")
         THEN [raised |-> TRUE,
               exc |-> Exc("ValueError",
                           Msg("OPENAI_API_KEY environment variable not set", <<>>)),
               openai_client |-> client]
         ELSE [raised |-> FALSE, exc |-> NoExc,
               openai_client |-> Some([api_key |-> Val(api_key)])]
    ELSE [raised |-> FALSE, exc |-> NoExc, openai_client |-> client]

\* openai_model, with OPENAI_MODEL unset
openai_model == "gpt-5-mini-2025-08-07"

\* client.chat.completions.create(...): the service answers or raises
Create(completion) ==
    IF completion = "ok"
    THEN Returned([model |-> openai_model, content |-> "answer"])
    ELSE Raised(Exc("APIError", Msg("service error", <<>>)))

(* --------------------------- the handler ------------------------------ *)

\* json.dumps({"message", "response", "source", "model"})
SuccessResult(message, response) ==
    [message |-> message, response |-> response.content,
     source |-> "CV Digital Twin (OpenAI)", model |-> response.model]

\* json.dumps({"status": "error", "message": f"{prefix}{str(e)}"}); path is
\* the path the prefix itself names, if any
ErrorResult(prefix, path, e) ==
    [status |-> "error",
     message |-> [prefix |-> prefix, path |-> path, text |-> e.msg]]

\* an exception no except clause caught: it leaves the handler
Fault(e) == [unhandled |-> e]

\* `if cv_path:`
Truthy(cv_path) == cv_path /= None /\ Val(cv_path) /= <<>>

\* The handler's progress: the globals as it has left them so far, what it
\* has done, and its return value once it has one.
Frame(content, metadata, client) ==
    [cv_content |-> content, cv_metadata |-> metadata, openai_client |-> client,
     discovery |-> FALSE, extracted |-> <<>>, invoked |-> FALSE,
     cv_text |-> None, request |-> None, result |-> None]

\* the block as the comment above it reads, "Load CV if path provided and CV
\* not already loaded": no reload over a Loaded cache
ExplicitLoad_OnlyWhenUnloaded(f, cv_path) ==
    IF ~Truthy(cv_path) \/ f.cv_content /= None THEN f
    ELSE LET r == load_cv(Val(cv_path), Globals(f.cv_content, f.cv_metadata))
         IN  [f EXCEPT
                !.cv_content = r.cv_content,
                !.cv_metadata = r.cv_metadata,
                !.extracted = @ \o r.extracted,
                !.result =
                    IF ~r.raised THEN None
                    ELSE ErrorResult("Failed to load CV: ", <<>>, r.exc)]

\* the block with `except Exception: pass`: a failed load falls through
ExplicitLoad_FallsThrough(f, cv_path) ==
    IF ~Truthy(cv_path) THEN f
    ELSE LET r == load_cv(Val(cv_path), Globals(f.cv_content, f.cv_metadata))
         IN  [f EXCEPT
                !.cv_content = r.cv_content,
                !.cv_metadata = r.cv_metadata,
                !.extracted = @ \o r.extracted]

\* `if cv_path: try: load_cv(cv_path) except Exception ...`
ExplicitLoad(f, cv_path) ==
    IF ~Truthy(cv_path) THEN f
    ELSE LET r == load_cv(Val(cv_path), Globals(f.cv_content, f.cv_metadata))
         IN  [f EXCEPT
                !.cv_content = r.cv_content,
                !.cv_metadata = r.cv_metadata,
                !.extracted = @ \o r.extracted,
                !.result =
                    IF ~r.raised THEN None
                    ELSE IF IsInstance(r.exc, "Exception")
                    THEN ErrorResult("Failed to load CV: ", <<>>, r.exc)
                    ELSE Fault(r.exc)]

\* `not cv_content`: the empty text read as not loaded
NotLoaded_Falsy(content) == content = None \/ Val(content) = <<>>

\* `cv_content is None`
NotLoaded(content) == content = None

\* cv_digital_twin.py: `if cv_content is None:` find_cv_in_docs, load_cv
AutoLoadBest(f, pdf_files) ==
    IF f.result /= None \/ ~NotLoaded(f.cv_content) THEN f
    ELSE LET auto_cv_path == find_cv_in_docs(pdf_files)
             r == load_cv(Val(auto_cv_path), Globals(f.cv_content, f.cv_metadata))
         IN  IF ~Truthy(auto_cv_path)
             THEN [f EXCEPT
                     !.discovery = TRUE,
                     !.result = ErrorResult("No CV loaded. Please provide a cv_path parameter or place your CV PDF in the docs/ directory.",
                                            <<>>, NoExc)]
             ELSE [f EXCEPT
                     !.discovery = TRUE,
                     !.cv_content = r.cv_content,
                     !.cv_metadata = r.cv_metadata,
                     !.extracted = @ \o r.extracted,
                     !.result =
                         IF ~r.raised THEN None
                         ELSE IF IsInstance(r.exc, "Exception")
                         THEN ErrorResult("Found CV at {auto_cv_path} but failed to load: ",
                                          Val(auto_cv_path), r.exc)
                         ELSE Fault(r.exc)]

\* main.py: `if cv_content is None:` load_all_pdfs_from_docs
AutoLoadAll(f) ==
    IF f.result /= None \/ ~NotLoaded(f.cv_content) THEN f
    ELSE LET r == load_all_pdfs_from_docs(Globals(f.cv_content, f.cv_metadata))
         IN  [f EXCEPT
                !.discovery = TRUE,
                !.cv_content = r.cv_content,
                !.cv_metadata = r.cv_metadata,
                !.extracted = @ \o r.extracted,
                !.result =
                    IF ~r.raised THEN None
                    ELSE IF IsInstance(r.exc, "FileNotFoundError")
                    THEN ErrorResult("", <<>>, r.exc)
                    ELSE IF IsInstance(r.exc, "Exception")
                    THEN ErrorResult("Failed to load PDFs from docs directory: ",
                                     <<>>, r.exc)
                    ELSE Fault(r.exc)]

\* the truncation with `>=` for `>`
Truncate_AtLimit(content) ==
    IF TLen(content) >= max_cv_length
    THEN TCat(TTake(content, max_cv_length), TruncationNote)
    ELSE content

\* cv_text: cv_content[:max_cv_length] and the marker when cv_content is
\* longer than max_cv_length, cv_content otherwise
Truncate(content) ==
    IF TLen(content) > max_cv_length
    THEN TCat(TTake(content, max_cv_length), TruncationNote)
    ELSE content

\* f"My CV/Resume:\n\n{cv_text}\n\n\nMessage: {message}"
UserTurn(cv_text, message) ==
    TCat(TCat(TCat(PromptLabel, cv_text), PromptMessage), message)

\* the except clauses of the final try
AnswerExcept(e) ==
    IF IsInstance(e, "ImportError") THEN ErrorResult("", <<>>, e)
    ELSE IF IsInstance(e, "ValueError") THEN ErrorResult("", <<>>, e)
    ELSE IF IsInstance(e, "Exception")
    THEN ErrorResult("Error calling OpenAI API: ", <<>>, e)
    ELSE Fault(e)

\* the final try with the truncation assigned to the global:
\* cv_content = cv_content[:max_cv_length]
Answer_TruncatesCache(f, message, api_key, completion) ==
    IF f.result /= None THEN f
    ELSE LET c == get_openai_client(f.openai_client, api_key)
             cv_text == Truncate(Val(f.cv_content))
             response == Create(completion)
         IN  IF c.raised
             THEN [f EXCEPT !.result = AnswerExcept(c.exc)]
             ELSE [f EXCEPT
                     !.cv_content = Some(TTake(Val(f.cv_content), max_cv_length)),
                     !.openai_client = c.openai_client,
                     !.invoked = TRUE,
                     !.cv_text = Some(cv_text),
                     !.request = Some([model |-> openai_model,
                                       user |-> UserTurn(cv_text, message)]),
                     !.result =
                         IF response.raised THEN AnswerExcept(response.exc)
                         ELSE SuccessResult(message, response.value)]

\* the final try: get_openai_client, the prompt, the completion call
Answer(f, message, api_key, completion) ==
    IF f.result /= None THEN f
    ELSE LET c == get_openai_client(f.openai_client, api_key)
             cv_text == Truncate(Val(f.cv_content))
             response == Create(completion)
         IN  IF c.raised
             THEN [f EXCEPT !.result = AnswerExcept(c.exc)]
             ELSE [f EXCEPT
                     !.openai_client = c.openai_client,
                     !.invoked = TRUE,
                     !.cv_text = Some(cv_text),
                     !.request = Some([model |-> openai_model,
                                       user |-> UserTurn(cv_text, message)]),
                     !.result =
                         IF response.raised THEN AnswerExcept(response.exc)
                         ELSE SuccessResult(message, response.value)]

\* `if cv_content is None:` of the script that runs
AutoLoad(f, pdf_files) ==
    IF script = "main" THEN AutoLoadAll(f) ELSE AutoLoadBest(f, pdf_files)

(* ----------------------------- the program ---------------------------- *)

\* the calls that may run concurrently
Threads == {1, 2}

\* a thread that runs no call: its position, its arguments and locals, and
\* the cv_content it found at each of the three reads of lines 211-213
Idle ==
    [pc |-> "idle", cv_path |-> None, pdf_path |-> <<>>, then |-> "idle",
     meta |-> <<>>, tested |-> FALSE, cv_text |-> None,
     read_test |-> None, read_take |-> None, read_mark |-> None,
     returned |-> "nothing"]

NoCall ==
    [op |-> "init", cv_path |-> None, api_key |-> None, discovery |-> FALSE,
     extracted |-> <<>>, invoked |-> FALSE, cv_text |-> None, request |-> None,
     result |-> None, raised |-> FALSE,
     pre |-> [cv_content |-> None, cv_metadata |-> <<>>, openai_client |-> None]]

\* the globals as an operation finds them
Pre ==
    [cv_content |-> cv_content, cv_metadata |-> cv_metadata,
     openai_client |-> openai_client]

\* the module as imported: nothing loaded, no client
Init ==
    /\ script \in {"cv_digital_twin", "main"}
    /\ HAS_OPENAI \in BOOLEAN
    /\ HAS_PDFPLUMBER \in BOOLEAN
    /\ HAS_PYPDF2 \in BOOLEAN
    /\ docs_exists \in BOOLEAN
    /\ \E docs \in DocsContents :
          files = (IF docs_exists THEN docs ELSE {}) \cup {P_x}
    /\ cv_content = None
    /\ cv_metadata = <<>>
    /\ openai_client = None
    /\ last = NoCall
    /\ calls = 0
    /\ threads = [t \in Threads |-> Idle]

Environment ==
    <<script, HAS_OPENAI, HAS_PDFPLUMBER, HAS_PYPDF2, docs_exists, files>>

\* The tool call chat_with_me(message, cv_path): _chat_with_me_impl run on
\* the current globals, from its first statement to its return.  api_key is
\* os.getenv("OPENAI_API_KEY") at the time of the call, completion what the
\* service does if it is called, pdf_files the order in which docs/ lists
\* its PDFs.
chat_with_me ==
    /\ calls < MaxCalls
    /\ \E cv_path \in CvPaths :
       \E f1 \in {ExplicitLoad(Frame(cv_content, cv_metadata, openai_client), cv_path)} :
       \E f2 \in {AutoLoad(f1, pdf_files) : pdf_files \in Listings(GlobPdf)} :
       \E api_key \in ApiKeys :
       \E f \in {Answer(f2, Message, api_key, completion) : completion \in Completions} :
          /\ cv_content' = f.cv_content
          /\ cv_metadata' = f.cv_metadata
          /\ openai_client' = f.openai_client
          /\ last' = [op |-> "chat", cv_path |-> cv_path, api_key |-> api_key,
                      discovery |-> f.discovery, extracted |-> f.extracted,
                      invoked |-> f.invoked, cv_text |-> f.cv_text,
                      request |-> f.request, result |-> f.result,
                      raised |-> FALSE, pre |-> Pre]
    /\ calls' = calls + 1
    /\ UNCHANGED <<Environment, threads>>

\* a direct call of load_cv(pdf_path), as __main__ and the test script make,
\* the caller catching what it raises
LoadCv ==
    /\ calls < MaxCalls
    /\ \E pdf_path \in {P_missing, P_x, P_a, P_b, P_CV} :
       \E r \in {load_cv(pdf_path, Globals(cv_content, cv_metadata))} :
              /\ cv_content' = r.cv_content
              /\ cv_metadata' = r.cv_metadata
              /\ last' = [NoCall EXCEPT
                            !.op = "load_cv", !.cv_path = Some(pdf_path),
                            !.extracted = r.extracted, !.raised = r.raised,
                            !.pre = Pre]
    /\ calls' = calls + 1
    /\ UNCHANGED <<Environment, openai_client, threads>>

\* the direct call of load_all_pdfs_from_docs() that main.py's __main__ makes
LoadAllPdfsFromDocs ==
    /\ calls < MaxCalls
    /\ script = "main"
    /\ \E r \in {load_all_pdfs_from_docs(Globals(cv_content, cv_metadata))} :
           /\ cv_content' = r.cv_content
           /\ cv_metadata' = r.cv_metadata
           /\ last' = [NoCall EXCEPT
                         !.op = "load_all", !.discovery = TRUE,
                         !.extracted = r.extracted, !.raised = r.raised,
                         !.pre = Pre]
    /\ calls' = calls + 1
    /\ UNCHANGED <<Environment, openai_client, threads>>

Next == chat_with_me \/ LoadCv \/ LoadAllPdfsFromDocs

Spec == Init /\ [][Next]_vars

(* ---------------------- interleaved tool calls ----------------------- *)
(* The same handler, one access to a module global per step, for calls     *)
(* that run in different threads: the handler takes no lock, and a thread  *)
(* switch can fall between any two of its accesses.                        *)

\* the cv_path arguments of the interleaved calls
ConcPaths == {None, Some(P_x), Some(P_a)}

At(t, pc) == threads[t].pc = pc

\* thread t moves on, its locals changed to loc
Step(t, loc) == threads' = [threads EXCEPT ![t] = loc]

\* thread t returns what from the handler
Return(t, what) ==
    Step(t, [threads[t] EXCEPT !.pc = "idle", !.returned = what])

\* chat_with_me(message, cv_path) starts in thread t: `if cv_path:`
T_Call(t) ==
    /\ At(t, "idle")
    /\ calls < MaxCalls
    /\ calls' = calls + 1
    /\ \E cv_path \in ConcPaths :
          Step(t, [Idle EXCEPT
                     !.cv_path = cv_path,
                     !.pdf_path = IF Truthy(cv_path) THEN Val(cv_path) ELSE <<>>,
                     !.then = "is_none",
                     !.pc = IF Truthy(cv_path) THEN "load_cv" ELSE "is_none"])
    /\ UNCHANGED <<Environment, cv_content, cv_metadata, openai_client, last>>

\* load_cv: the existence check, the extraction and `cv_content = ...`
T_LoadCv(t) ==
    /\ At(t, "load_cv")
    /\ \E r \in {load_cv(threads[t].pdf_path, Globals(cv_content, cv_metadata))} :
          IF r.raised
          THEN /\ Return(t, "error")
               /\ UNCHANGED cv_content
          ELSE /\ cv_content' = r.cv_content
               /\ Step(t, [threads[t] EXCEPT
                             !.pc = "load_len",
                             !.meta = [r.cv_metadata EXCEPT !.content_length = 0]])
    /\ UNCHANGED <<Environment, cv_metadata, openai_client, last, calls>>

\* "content_length": len(cv_content) of the dict being built
T_LoadLen(t) ==
    /\ At(t, "load_len")
    /\ Step(t, [threads[t] EXCEPT
                  !.pc = "load_meta",
                  !.meta = [@ EXCEPT !.content_length = TLen(Val(cv_content))]])
    /\ UNCHANGED <<Environment, cv_content, cv_metadata, openai_client, last, calls>>

\* `cv_metadata = {...}`
T_LoadMeta(t) ==
    /\ At(t, "load_meta")
    /\ cv_metadata' = threads[t].meta
    /\ Step(t, [threads[t] EXCEPT !.pc = threads[t].then, !.meta = <<>>])
    /\ UNCHANGED <<Environment, cv_content, openai_client, last, calls>>

\* `if cv_content is None:`
T_IsNone(t) ==
    /\ At(t, "is_none")
    /\ Step(t, [threads[t] EXCEPT
                  !.pc = IF NotLoaded(cv_content) THEN "discover" ELSE "client"])
    /\ UNCHANGED <<Environment, cv_content, cv_metadata, openai_client, last, calls>>

\* cv_digital_twin.py: find_cv_in_docs(), then load_cv(auto_cv_path)
T_FindCv(t) ==
    /\ At(t, "discover")
    /\ script = "cv_digital_twin"
    /\ \E auto_cv_path \in {find_cv_in_docs(pdf_files) : pdf_files \in Listings(GlobPdf)} :
          IF Truthy(auto_cv_path)
          THEN Step(t, [threads[t] EXCEPT
                          !.pc = "load_cv", !.pdf_path = Val(auto_cv_path),
                          !.then = "client"])
          ELSE Return(t, "error")
    /\ UNCHANGED <<Environment, cv_content, cv_metadata, openai_client, last, calls>>

\* main.py: load_all_pdfs_from_docs() up to `cv_content = "\n".join(...)`
T_LoadAll(t) ==
    /\ At(t, "discover")
    /\ script = "main"
    /\ \E r \in {load_all_pdfs_from_docs(Globals(cv_content, cv_metadata))} :
          IF r.raised
          THEN /\ Return(t, "error")
               /\ UNCHANGED cv_content
          ELSE /\ cv_content' = r.cv_content
               /\ Step(t, [threads[t] EXCEPT
                             !.pc = "load_len", !.then = "client",
                             !.meta = [r.cv_metadata EXCEPT !.content_length = 0]])
    /\ UNCHANGED <<Environment, cv_metadata, openai_client, last, calls>>

\* client = get_openai_client()
T_Client(t) ==
    /\ At(t, "client")
    /\ \E api_key \in ApiKeys :
       \E c \in {get_openai_client(openai_client, api_key)} :
          IF c.raised
          THEN /\ Return(t, "error")
               /\ UNCHANGED openai_client
          ELSE /\ openai_client' = c.openai_client
               /\ Step(t, [threads[t] EXCEPT !.pc = "test"])
    /\ UNCHANGED <<Environment, cv_content, cv_metadata, last, calls>>

\* the condition of line 211: len(cv_content) > max_cv_length
T_Test(t) ==
    /\ At(t, "test")
    /\ Step(t, [threads[t] EXCEPT
                  !.pc = "take",
                  !.tested = TLen(Val(cv_content)) > max_cv_length,
                  !.read_test = cv_content])
    /\ UNCHANGED <<Environment, cv_content, cv_metadata, openai_client, last, calls>>

\* the value of line 211: cv_content[:max_cv_length] or cv_content
T_Take(t) ==
    /\ At(t, "take")
    /\ Step(t, [threads[t] EXCEPT
                  !.pc = "mark",
                  !.cv_text = Some(IF threads[t].tested
                                   THEN TTake(Val(cv_content), max_cv_length)
                                   ELSE Val(cv_content)),
                  !.read_take = cv_content])
    /\ UNCHANGED <<Environment, cv_content, cv_metadata, openai_client, last, calls>>

\* lines 212-213: the marker, on a second len(cv_content) > max_cv_length
T_Mark(t) ==
    /\ At(t, "mark")
    /\ Step(t, [threads[t] EXCEPT
                  !.pc = "create",
                  !.cv_text = IF TLen(Val(cv_content)) > max_cv_length
                              THEN Some(TCat(Val(@), TruncationNote))
                              ELSE @,
                  !.read_mark = cv_content])
    /\ UNCHANGED <<Environment, cv_content, cv_metadata, openai_client, last, calls>>

\* the completion call with cv_text in the prompt, and the return
T_Create(t) ==
    /\ At(t, "create")
    /\ \E completion \in Completions :
          Return(t, IF Create(completion).raised THEN "error" ELSE "success")
    /\ UNCHANGED <<Environment, cv_content, cv_metadata, openai_client, last, calls>>

\* everything installed, docs/ holding three PDFs of which one is corrupt
InitConc ==
    /\ Init
    /\ HAS_OPENAI /\ HAS_PDFPLUMBER /\ HAS_PYPDF2
    /\ docs_exists
    /\ files = {P_a, P_b, P_Z, P_x}

NextConc ==
    \E t \in Threads :
        \/ T_Call(t)
        \/ T_LoadCv(t)
        \/ T_LoadLen(t)
        \/ T_LoadMeta(t)
        \/ T_IsNone(t)
        \/ T_FindCv(t)
        \/ T_LoadAll(t)
        \/ T_Client(t)
        \/ T_Test(t)
        \/ T_Take(t)
        \/ T_Mark(t)
        \/ T_Create(t)

SpecConc == InitConc /\ [][NextConc]_vars

(* ------------------------ extraction alone ---------------------------- *)
(* extract_text_from_pdf applied to files of every kind, under every       *)
(* combination of installed backends.                                      *)

\* the files handed to extract_text_from_pdf
ExtractFiles == {P_CV, P_resume, P_a, P_b, P_x, P_scan}

InitExtract ==
    /\ script \in {"cv_digital_twin", "main"}
    /\ HAS_OPENAI \in BOOLEAN
    /\ HAS_PDFPLUMBER \in BOOLEAN
    /\ HAS_PYPDF2 \in BOOLEAN
    /\ docs_exists = TRUE
    /\ files = ExtractFiles
    /\ cv_content = None
    /\ cv_metadata = <<>>
    /\ openai_client = None
    /\ last = NoCall
    /\ calls = 0
    /\ threads = [t \in Threads |-> Idle]

\* extract_text_from_pdf(pdf_path), of a file that exists or of one that
\* does not
ExtractText ==
    /\ calls < MaxCalls
    /\ \E pdf_path \in ExtractFiles \cup {P_missing} :
       \E r \in {extract_text_from_pdf(pdf_path)} :
          last' = [NoCall EXCEPT
                     !.op = "extract_text_from_pdf",
                     !.cv_path = Some(pdf_path),
                     !.extracted = <<pdf_path>>,
                     !.raised = r.raised,
                     !.result = r]
    /\ calls' = calls + 1
    /\ UNCHANGED <<Environment, cv_content, cv_metadata, openai_client, threads>>

NextExtract == ExtractText

SpecExtract == InitExtract /\ [][NextExtract]_vars

(* ------------------------------ claims -------------------------------- *)

\* the latest operation was an answer call
Answered == last.op = "chat"

\* the call was given a path (a non-empty cv_path)
GivenPath == last.cv_path /= None /\ last.cv_path /= Some(<<>>)

\* a load of the single file p fails: p is missing, or no backend extracts it
LoadFails(p) == p \notin files \/ extract_text_from_pdf(p).raised

IsSuccess(r) == DOMAIN r = {"message", "response", "source", "model"}

IsError(r) == DOMAIN r = {"status", "message"} /\ r.status = "error"

CacheAsBefore ==
    /\ cv_content = last.pre.cv_content
    /\ cv_metadata = last.pre.cv_metadata

TextOf(p) == extract_text_from_pdf(p).value

\* a call can get a client: the library is installed, and a client exists
\* already or the key is set
ClientAvailable(client, api_key) ==
    HAS_OPENAI /\ (client /= None \/ (api_key /= None /\ api_key /= Some("")))

\* the step taken is an answer call given the path p, which loads
AnswersWithPath(p) ==
    /\ calls' = calls + 1
    /\ last'.op = "chat"
    /\ last'.cv_path = Some(p)
    /\ p /= <<>>
    /\ ~LoadFails(p)

DocumentReady ==
    IF GivenPath THEN ~LoadFails(Val(last.cv_path)) ELSE cv_content /= None

MissingKey == Msg("OPENAI_API_KEY environment variable not set", <<>>)

\* C3 as stated: an answer call made while OPENAI_API_KEY is unset returns an
\* error result naming the missing credential and does not invoke the
\* completion service, after any earlier calls.
C3_AsStated ==
    (Answered /\ last.api_key = None) =>
        /\ IsError(last.result)
        /\ last.result.message.text = MissingKey
        /\ ~last.invoked

\* C3 (amended): an answer call made while OPENAI_API_KEY is unset, no client
\* having been built by an earlier call, returns an error result and does not
\* invoke the completion service; the message names the missing credential
\* when the document step succeeded and the OpenAI library is installed.
C3_MissingKey ==
    (Answered /\ last.api_key = None /\ last.pre.openai_client = None) =>
        /\ IsError(last.result)
        /\ ~last.invoked
        /\ openai_client = None
        /\ (DocumentReady /\ HAS_OPENAI) =>
              /\ last.result.message.text = MissingKey
              /\ last.result.message.prefix = ""

\* a call with the key unset after an earlier operation loaded a document
C3_Witness ==
    /\ Answered
    /\ last.api_key = None
    /\ calls > 1
    /\ last.pre.cv_content /= None
    /\ last.pre.openai_client = None
    /\ HAS_OPENAI
    /\ last.result.message.text = MissingKey

C5_LoadedStaysLoaded ==
    /\ last.pre.cv_content /= None => cv_content /= None
    /\ (last.op \in {"load_cv", "load_all"} /\ ~last.raised) => cv_content /= None
    /\ (Answered /\ last.pre.cv_content /= None) => ~last.discovery
    /\ (Answered /\ last.pre.cv_content /= None /\ ~GivenPath) =>
          last.extracted = <<>>

\* an answer call without a path over a cache that holds the empty text
C5_Witness ==
    /\ Answered
    /\ ~GivenPath
    /\ last.pre.cv_content = Some(<<>>)
    /\ cv_content = Some(<<>>)
    /\ ~last.discovery

\* C6: an answer call without a path made over a Loaded cache resolves no
\* path, extracts nothing and leaves cv_content and cv_metadata unchanged,
\* whether the client construction and the completion call succeed or fail;
\* and no operation changes the cache without a load that extracted a
\* document.
C6_OnlyLoadMutates ==
    /\ (Answered /\ ~GivenPath /\ last.pre.cv_content /= None) =>
          /\ ~last.discovery
          /\ last.extracted = <<>>
          /\ CacheAsBefore
    /\ last.extracted = <<>> => CacheAsBefore

\* such a call whose completion call raised
C6_Witness ==
    /\ Answered
    /\ ~GivenPath
    /\ last.pre.cv_content /= None
    /\ last.invoked
    /\ IsError(last.result)
    /\ CacheAsBefore

\* auto-discovery finds no PDF: docs/ is missing, empty, or without a PDF
NoPdfInDocs == ~docs_exists \/ files \cap DocsPdfs = {}

\* the error result of auto-discovery that found no document
NoDocumentFound(r) ==
    /\ IsError(r)
    /\ IF script = "main"
       THEN r.message = [prefix |-> "", path |-> <<>>,
                         text |-> Msg("No PDF files found in docs/ directory", <<>>)]
       ELSE r.message.prefix = "No CV loaded. Please provide a cv_path parameter or place your CV PDF in the docs/ directory."

\* C8: an answer call without a path over an Unloaded cache, docs/ being
\* missing or holding no PDF, returns the no-document error result, does not
\* invoke the completion service and leaves the cache Unloaded, in both
\* scripts.
C8_NothingToDiscover ==
    (Answered /\ ~GivenPath /\ last.pre.cv_content = None /\ NoPdfInDocs) =>
        /\ last.discovery
        /\ NoDocumentFound(last.result)
        /\ ~last.invoked
        /\ last.extracted = <<>>
        /\ cv_content = None
        /\ cv_metadata = <<>>

\* main.py over an existing, empty docs/
C8_Witness ==
    /\ Answered
    /\ ~GivenPath
    /\ script = "main"
    /\ docs_exists
    /\ files = {P_x}
    /\ last.pre.cv_content = None
    /\ last.discovery
    /\ NoDocumentFound(last.result)

RECURSIVE Keep(_, _)
\* the items of the sequence ps that are in the set S, in the order of ps
Keep(ps, S) ==
    IF ps = <<>> THEN <<>>
    ELSE (IF Head(ps) \in S THEN <<Head(ps)>> ELSE <<>>) \o Keep(Tail(ps), S)

\* the PDFs of docs/ whose extraction succeeds, in lexicographic order
Extractable == Keep(DocsPdfsInOrder, {p \in files \cap DocsPdfs : ~LoadFails(p)})

\* the text of the documents ps, each after its own file-name header
Combined(ps) ==
    Join(Rep("\n", 1),
         [i \in 1..Len(ps) |->
             TCat(TCat(TCat(HeaderOpen, Str(Basename(ps[i]))), HeaderClose),
                  TextOf(ps[i]))])

\* the latest operation ran load_all_pdfs_from_docs
LoadedAll == last.op = "load_all" \/ (Answered /\ last.discovery /\ script = "main")

\* C9: load_all_pdfs_from_docs succeeds if at least one document of docs/ is
\* extracted: the cache then holds exactly the extracted documents in
\* lexicographic order of their paths, each after its own file-name header,
\* the sources recorded are exactly those documents, and the failed ones are
\* not reported as an error.  It fails, the cache unchanged, only if no
\* document is extracted.
C9_MultiDocumentLoad ==
    LoadedAll =>
        IF Extractable = <<>>
        THEN /\ CacheAsBefore
             /\ last.op = "load_all" => last.raised
             /\ Answered => (IsError(last.result) /\ ~last.invoked)
        ELSE /\ cv_content = Some(Combined(Extractable))
             /\ cv_metadata =
                   [file_paths |-> Extractable,
                    file_names |-> [i \in 1..Len(Extractable) |->
                                       Basename(Extractable[i])],
                    content_length |-> TLen(Combined(Extractable)),
                    num_files |-> Len(Extractable),
                    loaded |-> TRUE]
             /\ last.extracted = Keep(DocsPdfsInOrder, files)
             /\ last.op = "load_all" => ~last.raised
             /\ (Answered /\ IsError(last.result)) =>
                   /\ last.result.message.prefix \in {"", "Error calling OpenAI API: "}
                   /\ last.result.message.text.fmt \in
                         {"OpenAI library not installed",
                          "OPENAI_API_KEY environment variable not set",
                          "service error"}

\* three documents, one of which fails extraction: two are loaded
C9_Witness ==
    /\ last.op = "load_all"
    /\ ~last.raised
    /\ Len(last.extracted) = 3
    /\ cv_metadata.num_files = 2
    /\ cv_metadata.file_paths = <<P_Z, P_a>>

\* C10: the document text in the prompt of a completion call is the cached
\* text unmodified when its length is at most max_cv_length, and its first
\* max_cv_length characters followed by the truncation marker when it is
\* longer; the cache keeps the whole text.
C10_PromptTruncation ==
    (Answered /\ last.invoked) =>
        /\ TLen(Val(cv_content)) <= max_cv_length =>
              Val(last.cv_text) = Val(cv_content)
        /\ TLen(Val(cv_content)) > max_cv_length =>
              /\ TTake(Val(last.cv_text), max_cv_length)
                    = TTake(Val(cv_content), max_cv_length)
              /\ TLen(Val(last.cv_text)) = max_cv_length + TLen(TruncationNote)
              /\ Val(last.cv_text)
                    = TCat(TTake(Val(cv_content), max_cv_length), TruncationNote)
        /\ Val(last.request).user
              = TCat(TCat(TCat(PromptLabel, Val(last.cv_text)), PromptMessage),
                     Message)
        /\ cv_metadata.content_length = TLen(Val(cv_content))
        /\ GivenPath => cv_content = Some(TextOf(Val(last.cv_path)))
        /\ (~GivenPath /\ last.pre.cv_content /= None) => CacheAsBefore

\* a cached text one character over the limit went into a prompt
C10_Witness ==
    /\ Answered
    /\ last.invoked
    /\ TLen(Val(cv_content)) = max_cv_length + 1
    /\ TLen(Val(last.cv_text)) = max_cv_length + TLen(TruncationNote)

\* cv_metadata describes the cv_content beside it: both from one load
CacheWellFormed ==
    IF cv_content = None THEN cv_metadata = <<>>
    ELSE /\ cv_metadata /= <<>>
         /\ cv_metadata.content_length = TLen(Val(cv_content))
         /\ IF "file_path" \in DOMAIN cv_metadata
            THEN cv_content = Some(TextOf(cv_metadata.file_path))
            ELSE cv_content = Some(Combined(cv_metadata.file_paths))

\* thread t is about to read the cache
Reading(t) == threads[t].pc \in {"is_none", "test", "take", "mark"}

\* C7: with answer calls interleaved, a call that reads the cache finds
\* cv_content and cv_metadata of one completed load, and the text it tests
\* for truncation, the text it puts in the prompt and the text it tests for
\* the marker are the text of one load.
C7_AsStated ==
    \A t \in Threads :
        /\ Reading(t) => CacheWellFormed
        /\ At(t, "create") =>
              /\ threads[t].read_test = threads[t].read_take
              /\ threads[t].read_take = threads[t].read_mark
              /\ \E p \in files :
                    /\ ~LoadFails(p)
                    /\ \/ threads[t].cv_text = Some(TextOf(p))
                       \/ threads[t].cv_text
                            = Some(TCat(TTake(TextOf(p), max_cv_length), TruncationNote))
                       \/ threads[t].read_test = Some(Combined(Extractable))

\* the conventional names in their priority order
PriorityNames ==
    << <<"C", "V", ".", "p", "d", "f">>,
       <<"c", "v", ".", "p", "d", "f">>,
       <<"r", "e", "s", "u", "m", "e", ".", "p", "d", "f">>,
       <<"R", "e", "s", "u", "m", "e", ".", "p", "d", "f">> >>

\* some conventional name exists in docs/
HasPriorityName == \E i \in 1..Len(PriorityNames) : InDocs(PriorityNames[i]) \in files

\* the path the single-best-match discovery is to resolve, docs/ holding a PDF
BestMatch ==
    IF HasPriorityName
    THEN InDocs(PriorityNames[
             CHOOSE i \in 1..Len(PriorityNames) :
                 /\ InDocs(PriorityNames[i]) \in files
                 /\ \A j \in 1..(i - 1) : InDocs(PriorityNames[j]) \notin files])
    ELSE Sorted(GlobPdf)[1]

\* an answer call of cv_digital_twin.py has run its discovery over a docs/
\* that holds a PDF
DiscoveredBest ==
    /\ Answered
    /\ script = "cv_digital_twin"
    /\ last.discovery
    /\ docs_exists
    /\ GlobPdf /= {}

\* C11: in cv_digital_twin.py the discovery resolves, and hands to load_cv,
\* the first existing of CV.pdf, cv.pdf, resume.pdf, Resume.pdf, and when
\* none exists the .pdf file of docs/ whose path is lexicographically first,
\* whatever the order of the directory listing.
C11_AsStated == DiscoveredBest => last.extracted = <<BestMatch>>

\* extract_text_from_pdf has run; Target is the file it was given
Extracted == last.op = "extract_text_from_pdf"

Target == last.extracted[1]

\* the text of pages ps joined by blank lines, a page without text being ""
PagesText(ps) ==
    Join(Rep("\n", 2),
         [i \in 1..Len(ps) |-> IF ps[i] = None THEN <<>> ELSE Val(ps[i])])

\* the layout-aware backend is installed and opens and reads Target
FirstRuns ==
    HAS_PDFPLUMBER /\ Target \in files /\ ~FileOf(Target).plumber.raises

\* ... and then finds no text on any page of it
FirstEmpty ==
    /\ FileOf(Target).plumber.pages /= <<>>
    /\ \A i \in 1..Len(FileOf(Target).plumber.pages) :
          FileOf(Target).plumber.pages[i] = None

\* the plain-text backend is installed and reads Target, every page of it
\* yielding text
SecondRuns ==
    /\ HAS_PYPDF2 /\ Target \in files /\ ~FileOf(Target).pypdf2.raises
    /\ \A i \in 1..Len(FileOf(Target).pypdf2.pages) :
          FileOf(Target).pypdf2.pages[i] /= None

FromFirst ==
    /\ ~last.raised
    /\ last.result.value = PagesText(FileOf(Target).plumber.pages)

FromSecond ==
    /\ ~last.raised
    /\ last.result.value = PagesText(FileOf(Target).pypdf2.pages)

Unavailable ==
    /\ last.raised
    /\ last.result.exc.cls = "ImportError"
    /\ last.result.exc.msg.fmt
         = "No PDF library available. Please install pdfplumber or PyPDF2"

\* C12 as stated: the first backend's result is returned unless it raises or
\* finds only empty page text; then the second backend's result is, and the
\* operation fails only when neither backend yields a result.
C12_AsStated ==
    Extracted =>
        IF FirstRuns /\ ~FirstEmpty THEN FromFirst
        ELSE IF SecondRuns THEN FromSecond
        ELSE Unavailable

\* C12: extract_text_from_pdf returns what pdfplumber yields when pdfplumber
\* is installed and does not raise, pages without text as empty strings and
\* with no fallback; when pdfplumber is missing or raises it returns what
\* PyPDF2 yields; it raises the ImportError exactly when each backend is
\* missing or raises, and never what a backend raised.
C12_BackendFallback ==
    Extracted =>
        IF FirstRuns THEN FromFirst
        ELSE IF SecondRuns THEN FromSecond
        ELSE Unavailable

\* pdfplumber raised on resume.pdf and PyPDF2's text came back
C12_Witness ==
    /\ Extracted
    /\ Target = P_resume
    /\ HAS_PDFPLUMBER /\ HAS_PYPDF2
    /\ FileOf(P_resume).plumber.raises
    /\ ~last.raised
    /\ last.result.value = Rep("r", 2)

====
